---- MODULE Spec2Model ----
(***************************************************************************)
(* Cloud relay server (src/server.js): the session registry kept in the    *)
(* three process-wide maps agents, controllers and pairingCodes, the       *)
(* socket.io handlers that mutate them, and the hourly pairing-code sweep. *)
(* Every handler runs to completion on the single-threaded event loop, so  *)
(* each handler is one atomic action.                                      *)
(***************************************************************************)
EXTENDS Integers, Sequences, FiniteSets, TLC

\* ---------------------------------------------------------------- bounds
MaxConn == 2
NumCodes == 2
NumInfos == 1
MaxTime == 2
\* the number of events (messages, disconnects, timer runs) the server
\* handles in one run
MaxEvents == 4
\* under RelaySpec and OrderSpec: the number of registry events (register,
\* disconnect, timer) and the number of relayed messages the server handles
\* in one run
MaxSetup == 2
MaxRelay == 2

\* ------------------------------------------------------ program constants
\* Date.now() is counted in whole hours since the server started, so the
\* 3600000 ms of the sweep's window and of its interval are 1 each.
ExpiryWindow == 1
SweepInterval == 1
\* generateCode: Math.floor(100000 + Math.random() * 900000)
CodeBase == 100000

Conn == 1..MaxConn
\* the values generateCode can return, cut down to NumCodes of them
Codes == CodeBase..(CodeBase + NumCodes - 1)
\* the info objects a client may send: hostname, username, platform, screens
InfoOf(n) == [hostname |-> 10 * n + 1, username |-> 10 * n + 2,
              platform |-> 10 * n + 3, screens |-> 10 * n + 4]
Infos == {InfoOf(n) : n \in 1..NumInfos}
\* controller:register stores its info and nothing ever reads it: one value
ControllerInfos == {InfoOf(1)}

\* one of the names of controlEvents and one of agentEvents: the handlers
\* of a list differ in the name alone
ControlEvents == {"control:mouse"}
AgentEvents == {"agent:frame"}

\* The payload of a relayed message: its agentId and targetAgent properties
\* (0, which is falsy as undefined is, when the property is absent) and the
\* rest of the object, which the environment makes the arrival number of
\* the message so that two messages can be told apart.
Data(agentId, targetAgent, body) ==
    [agentId |-> agentId, targetAgent |-> targetAgent, body |-> body]
\* what a controller may send: agentId absent or naming any socket id,
\* targetAgent absent or naming the last socket id
ControlData(body) ==
    {Data(a, t, body) : a \in 0..MaxConn, t \in {0, MaxConn}}
\* what an agent may send: agentId absent or set to any socket id
AgentData(body) == {Data(a, 0, body) : a \in 0..MaxConn}

VARIABLES
    nextId,        \* socket ids handed out so far (an id is never reused)
    connected,     \* sockets whose socket.connected is true
    agents,        \* Map agentId -> { info, controllerId }
    controllers,   \* Map controllerId -> { info, code, agentIds }
    pairingCodes,  \* Map code -> { controllerId, created }
    now,           \* Date.now()
    emitted,       \* the socket.emit calls of the last handler, in order
    logged,        \* the console.log lines of the last handler, in order
    last,          \* the event the last handler was run for
    handled,       \* how many events have been handled
    relayed,       \* how many relay messages have arrived
    delivered      \* under OrderSpec: the relayed messages emitted so far

vars == <<nextId, connected, agents, controllers, pairingCodes, now,
          emitted, logged, last, handled, relayed, delivered>>

\* ------------------------------------------------------------ JS Map / Set
EmptyMap == <<>>
MapHas(m, k) == k \in DOMAIN m
MapSet(m, k, v) == [x \in (DOMAIN m) \cup {k} |-> IF x = k THEN v ELSE m[x]]
MapDelete(m, k) == [x \in (DOMAIN m) \ {k} |-> m[x]]

\* The elements of a finite set of integers in ascending order.  A forEach
\* over a JS Set visits in insertion order; the model fixes ascending order
\* for the emits of one loop.
RECURSIVE SetToSeq(_)
SetToSeq(S) ==
    IF S = {} THEN <<>>
    ELSE LET m == CHOOSE x \in S : \A y \in S : x <= y
         IN <<m>> \o SetToSeq(S \ {m})

\* one socket.emit call: the socket it is called on, the event, the payload
Msg(to, event, payload) == [to |-> to, event |-> event, payload |-> payload]
NoPayload == <<>>

\* the event a handler is run for: its name, the socket it arrived on and,
\* for the two register events, the code (generated or supplied)
Event(op, conn) == [op |-> op, conn |-> conn]
CodeEvent(op, conn, code) == [op |-> op, conn |-> conn, code |-> code]
\* agent:register: the code and the info of its data
AgentRegisterEvent(conn, code, info) ==
    [op |-> "agent:register", conn |-> conn, code |-> code, info |-> info]

\* The registry a handler works on: the three maps, and the emits and the
\* log lines so far.
Registry == [agents |-> agents, controllers |-> controllers,
             pairingCodes |-> pairingCodes, out |-> <<>>, log |-> <<>>]


\* ------------------------------------------------------------- handlers
\* the summary of one agent pushed onto agentList (controller:register)
AgentSummary(reg, id) ==
    [id |-> id,
     hostname |-> reg.agents[id].info.hostname,
     username |-> reg.agents[id].info.username,
     platform |-> reg.agents[id].info.platform]

\* socket.on('controller:register'): code is what generateCode() returned,
\* t is Date.now()
OnControllerRegister(reg, c, info, code, t) ==
    LET controllers1 == MapSet(reg.controllers, c,
                               [info |-> info, code |-> code, agentIds |-> {}])
        pairing1 == MapSet(reg.pairingCodes, code,
                           [controllerId |-> c, created |-> t])
        agentList == {AgentSummary(reg, id) :
                        id \in {a \in DOMAIN reg.agents :
                                   reg.agents[a].controllerId = c}}
    IN [agents |-> reg.agents,
        controllers |-> controllers1,
        pairingCodes |-> pairing1,
        out |-> reg.out \o
                <<Msg(c, "controller:registered",
                      [controllerId |-> c, code |-> code,
                       message |-> "Share this code with agents to connect"]),
                  Msg(c, "controller:agent-list", agentList)>>,
        log |-> reg.log \o <<"[CONTROLLER] Registered">>]

\* agent:register with the entry written before the code is looked up
OnAgentRegisterSetsFirst(reg, c, code, info) ==
    IF ~MapHas(reg.pairingCodes, code)
    THEN [reg EXCEPT
            !.agents = MapSet(reg.agents, c, [info |-> info, controllerId |-> 0]),
            !.out = @ \o
              <<Msg(c, "agent:error", [error |-> "Invalid pairing code"])>>]
    ELSE LET cid == reg.pairingCodes[code].controllerId IN
         [agents |-> MapSet(reg.agents, c,
                            [info |-> info, controllerId |-> cid]),
          controllers |-> [reg.controllers EXCEPT
                             ![cid].agentIds = @ \cup {c}],
          pairingCodes |-> reg.pairingCodes,
          out |-> reg.out \o
                  <<Msg(c, "agent:registered",
                        [agentId |-> c, controllerId |-> cid]),
                    Msg(cid, "controller:agent-joined",
                        [id |-> c,
                         hostname |-> info.hostname,
                         username |-> info.username,
                         platform |-> info.platform,
                         screens |-> info.screens])>>,
          log |-> reg.log \o <<"[AGENT] Registered">>]

\* agent:register with one-time codes: a code is deleted once it is used
OnAgentRegisterConsumesCode(reg, c, code, info) ==
    IF ~MapHas(reg.pairingCodes, code)
    THEN [reg EXCEPT !.out = @ \o
            <<Msg(c, "agent:error", [error |-> "Invalid pairing code"])>>]
    ELSE LET cid == reg.pairingCodes[code].controllerId IN
         [agents |-> MapSet(reg.agents, c,
                            [info |-> info, controllerId |-> cid]),
          controllers |-> [reg.controllers EXCEPT
                             ![cid].agentIds = @ \cup {c}],
          pairingCodes |-> MapDelete(reg.pairingCodes, code),
          out |-> reg.out \o
                  <<Msg(c, "agent:registered",
                        [agentId |-> c, controllerId |-> cid]),
                    Msg(cid, "controller:agent-joined",
                        [id |-> c,
                         hostname |-> info.hostname,
                         username |-> info.username,
                         platform |-> info.platform,
                         screens |-> info.screens])>>,
          log |-> reg.log \o <<"[AGENT] Registered">>]

\* agent:register announcing the agent to every controller
OnAgentRegisterTellsAll(reg, c, code, info) ==
    IF ~MapHas(reg.pairingCodes, code)
    THEN [reg EXCEPT !.out = @ \o
            <<Msg(c, "agent:error", [error |-> "Invalid pairing code"])>>]
    ELSE LET cid == reg.pairingCodes[code].controllerId
             ids == SetToSeq(DOMAIN reg.controllers)
         IN [agents |-> MapSet(reg.agents, c,
                               [info |-> info, controllerId |-> cid]),
             controllers |-> [reg.controllers EXCEPT
                                ![cid].agentIds = @ \cup {c}],
             pairingCodes |-> reg.pairingCodes,
             out |-> reg.out \o
                     <<Msg(c, "agent:registered",
                           [agentId |-> c, controllerId |-> cid])>> \o
                     [i \in 1..Len(ids) |->
                        Msg(ids[i], "controller:agent-joined",
                            [id |-> c,
                             hostname |-> info.hostname,
                             username |-> info.username,
                             platform |-> info.platform,
                             screens |-> info.screens])],
             log |-> reg.log \o <<"[AGENT] Registered">>]

\* socket.on('agent:register')
OnAgentRegister(reg, c, code, info) ==
    IF ~MapHas(reg.pairingCodes, code)
    THEN [reg EXCEPT !.out = @ \o
            <<Msg(c, "agent:error", [error |-> "Invalid pairing code"])>>]
    ELSE LET cid == reg.pairingCodes[code].controllerId IN
         IF ~MapHas(reg.controllers, cid)
         THEN [reg EXCEPT !.out = @ \o
                 <<Msg(c, "agent:error", [error |-> "Controller not found"])>>]
         ELSE [agents |-> MapSet(reg.agents, c,
                                 [info |-> info, controllerId |-> cid]),
               controllers |-> [reg.controllers EXCEPT
                                  ![cid].agentIds = @ \cup {c}],
               pairingCodes |-> reg.pairingCodes,
               out |-> reg.out \o
                       <<Msg(c, "agent:registered",
                             [agentId |-> c, controllerId |-> cid]),
                         Msg(cid, "controller:agent-joined",
                             [id |-> c,
                              hostname |-> info.hostname,
                              username |-> info.username,
                              platform |-> info.platform,
                              screens |-> info.screens])>>,
               log |-> reg.log \o <<"[AGENT] Registered">>]

\* the first half without its agents.has guard: every controller is told
DisconnectAgentUnguarded(reg, c) ==
    [reg EXCEPT
       !.agents = MapDelete(reg.agents, c),
       !.out = @ \o [i \in 1..Len(SetToSeq(DOMAIN reg.controllers)) |->
                       Msg(SetToSeq(DOMAIN reg.controllers)[i],
                           "controller:agent-left", [agentId |-> c])]]

\* socket.on('disconnect'), first half: "Check if it was an agent"
DisconnectAgent(reg, c) ==
    IF ~MapHas(reg.agents, c) THEN reg
    ELSE LET cid == reg.agents[c].controllerId
             live == MapHas(reg.controllers, cid)
         IN [agents |-> MapDelete(reg.agents, c),
             controllers |-> IF live
                             THEN [reg.controllers EXCEPT
                                     ![cid].agentIds = @ \ {c}]
                             ELSE reg.controllers,
             pairingCodes |-> reg.pairingCodes,
             out |-> IF live
                     THEN reg.out \o <<Msg(cid, "controller:agent-left",
                                           [agentId |-> c])>>
                     ELSE reg.out,
             log |-> reg.log \o <<"[AGENT] Disconnected">>]

\* "Notify all agents": one emit per member of agentIds still in agents
NotifyAgents(reg, c) ==
    LET ids == SetToSeq({a \in reg.controllers[c].agentIds :
                           MapHas(reg.agents, a)})
    IN [i \in 1..Len(ids) |->
          Msg(ids[i], "agent:controller-disconnected", NoPayload)]

\* the removal stopping at the first entry of the socket it finds
RemoveFirstPairingCode(pc, c) ==
    LET own == {x \in DOMAIN pc : pc[x].controllerId = c}
    IN IF own = {} THEN pc
       ELSE MapDelete(pc, CHOOSE x \in own : \A y \in own : x <= y)

\* "Remove pairing code": every entry whose controllerId is the socket
RemovePairingCodes(pc, c) ==
    [k \in {x \in DOMAIN pc : pc[x].controllerId # c} |-> pc[k]]

\* socket.on('disconnect'), second half: "Check if it was a controller"
DisconnectController(reg, c) ==
    IF ~MapHas(reg.controllers, c) THEN reg
    ELSE [agents |-> reg.agents,
          controllers |-> MapDelete(reg.controllers, c),
          pairingCodes |-> RemovePairingCodes(reg.pairingCodes, c),
          out |-> reg.out \o NotifyAgents(reg, c),
          log |-> reg.log \o <<"[CONTROLLER] Disconnected">>]

\* the disconnect handler with its second check written as an else branch
OnDisconnectElse(reg, c) ==
    IF MapHas(reg.agents, c) THEN DisconnectAgent(reg, c)
    ELSE DisconnectController(reg, c)

\* socket.on('disconnect')
OnDisconnect(reg, c) == DisconnectController(DisconnectAgent(reg, c), c)

\* the sweep with <= for <: an entry exactly one window old goes too
SweepCodesInclusive(pc, t) ==
    LET oneHourAgo == t - ExpiryWindow
    IN [k \in {x \in DOMAIN pc : ~(pc[x].created <= oneHourAgo)} |-> pc[k]]

\* the setInterval callback: "Clean up old pairing codes every hour"
SweepCodes(pc, t) ==
    LET oneHourAgo == t - ExpiryWindow
    IN [k \in {x \in DOMAIN pc : ~(pc[x].created < oneHourAgo)} |-> pc[k]]

\* the control relay emitting to the target socket without the agents lookup
OnControlEventAnySocket(reg, live, c, ev, data) ==
    LET targetAgentId == IF data.agentId # 0 THEN data.agentId
                         ELSE data.targetAgent
    IN IF targetAgentId # 0 /\ targetAgentId \in live
       THEN [reg EXCEPT !.out = @ \o <<Msg(targetAgentId, ev, data)>>]
       ELSE reg

\* the control relay forwarding only what the agent's own controller sends
OnControlEventOwnerOnly(reg, live, c, ev, data) ==
    LET targetAgentId == IF data.agentId # 0 THEN data.agentId
                         ELSE data.targetAgent
    IN IF /\ targetAgentId # 0
          /\ MapHas(reg.agents, targetAgentId)
          /\ targetAgentId \in live
          /\ reg.agents[targetAgentId].controllerId = c
       THEN [reg EXCEPT !.out = @ \o <<Msg(targetAgentId, ev, data)>>]
       ELSE reg

\* controlEvents.forEach: socket.on(event, data) on socket c, live is the
\* set of sockets whose socket.connected is true
OnControlEvent(reg, live, c, ev, data) ==
    LET targetAgentId == IF data.agentId # 0 THEN data.agentId
                         ELSE data.targetAgent
    IN IF /\ targetAgentId # 0
          /\ MapHas(reg.agents, targetAgentId)
          /\ targetAgentId \in live
       THEN [reg EXCEPT !.out = @ \o <<Msg(targetAgentId, ev, data)>>]
       ELSE reg

\* { agentId: socket.id, ...data }: the sender's own agentId wins
SpreadSenderLast(data, c) ==
    IF data.agentId # 0 THEN data ELSE [data EXCEPT !.agentId = c]

\* { ...data, agentId: socket.id }
Spread(data, c) == [data EXCEPT !.agentId = c]

\* the agent relay of the auto-discovery variant: every controller gets it
OnAgentEventBroadcast(reg, live, c, ev, data) ==
    LET ids == SetToSeq(DOMAIN reg.controllers)
    IN [reg EXCEPT !.out = @ \o [i \in 1..Len(ids) |->
                                   Msg(ids[i], ev, Spread(data, c))]]

\* the agent relay emitting every message twice
OnAgentEventTwice(reg, live, c, ev, data) ==
    IF ~MapHas(reg.agents, c) THEN reg
    ELSE LET cid == reg.agents[c].controllerId
         IN IF MapHas(reg.controllers, cid) /\ cid \in live
            THEN [reg EXCEPT !.out = @ \o <<Msg(cid, ev, Spread(data, c)),
                                            Msg(cid, ev, Spread(data, c))>>]
            ELSE reg

\* agentEvents.forEach: socket.on(event, data) on socket c
OnAgentEvent(reg, live, c, ev, data) ==
    IF ~MapHas(reg.agents, c) THEN reg
    ELSE LET cid == reg.agents[c].controllerId
         IN IF MapHas(reg.controllers, cid) /\ cid \in live
            THEN [reg EXCEPT !.out = @ \o <<Msg(cid, ev, Spread(data, c))>>]
            ELSE reg

\* -------------------------------------------------------------- actions
Init ==
    /\ nextId = 1
    /\ connected = {}
    /\ agents = EmptyMap
    /\ controllers = EmptyMap
    /\ pairingCodes = EmptyMap
    /\ now = 0
    /\ emitted = <<>>
    /\ logged = <<>>
    /\ last = Event("start", 0)
    /\ handled = 0
    /\ relayed = 0
    /\ delivered = <<>>

\* one more event is taken off the event loop
Handle(ev) ==
    /\ handled < MaxEvents
    /\ handled' = handled + 1
    /\ last' = ev

\* the three maps and the emits become what the handler left
Commit(reg) ==
    /\ agents' = reg.agents
    /\ controllers' = reg.controllers
    /\ pairingCodes' = reg.pairingCodes
    /\ emitted' = reg.out
    /\ logged' = reg.log

\* io.on('connection'): the transport hands out a fresh socket id
Connect ==
    /\ nextId <= MaxConn
    /\ connected' = connected \cup {nextId}
    /\ nextId' = nextId + 1
    /\ emitted' = <<>>
    /\ logged' = <<"[CONNECT]">>
    /\ last' = Event("connection", nextId)
    /\ UNCHANGED <<agents, controllers, pairingCodes, now, handled, relayed,
                   delivered>>

ControllerRegister(c, info, code) ==
    /\ c \in connected
    /\ Commit(OnControllerRegister(Registry, c, info, code, now))
    /\ Handle(CodeEvent("controller:register", c, code))
    /\ UNCHANGED <<nextId, connected, now, relayed, delivered>>

AgentRegister(c, code, info) ==
    /\ c \in connected
    /\ Commit(OnAgentRegister(Registry, c, code, info))
    /\ Handle(AgentRegisterEvent(c, code, info))
    /\ UNCHANGED <<nextId, connected, now, relayed, delivered>>

\* the socket closes: socket.connected is false when the handler runs
Disconnect(c) ==
    /\ c \in connected
    /\ connected' = connected \ {c}
    /\ Commit(OnDisconnect(Registry, c))
    /\ Handle(Event("disconnect", c))
    /\ UNCHANGED <<nextId, now, relayed, delivered>>

\* setInterval: the next hour is reached and the timer callback runs.  The
\* handlers between two runs of it read the same hour from Date.now().
Sweep ==
    /\ now + SweepInterval <= MaxTime
    /\ now' = now + SweepInterval
    /\ pairingCodes' = SweepCodes(pairingCodes, now')
    /\ emitted' = <<>>
    /\ logged' = <<>>
    /\ Handle(Event("sweep", 0))
    /\ UNCHANGED <<nextId, connected, agents, controllers, relayed, delivered>>

\* the event of a relayed message: its name, the socket it arrived on and
\* the payload
RelayEvent(op, conn, data) == [op |-> op, conn |-> conn, data |-> data]

\* the emits of a relay handler run for socket c: who sent the message, who
\* gets it, and the arrival number it carries
Deliveries(out, c) ==
    [i \in 1..Len(out) |->
       [from |-> c, to |-> out[i].to, body |-> out[i].payload.body]]

\* a relay message is taken off the event loop; keep says whether the
\* history of deliveries is recorded
Relay(ev, reg, keep) ==
    /\ relayed < MaxRelay
    /\ relayed' = relayed + 1
    /\ last' = ev
    /\ Commit(reg)
    /\ delivered' = IF keep THEN delivered \o Deliveries(reg.out, ev.conn)
                            ELSE delivered
    /\ UNCHANGED <<nextId, connected, now, handled>>

\* a socket sends one of the controlEvents
ControlEvent(c, ev, data, keep) ==
    /\ c \in connected
    /\ Relay(RelayEvent(ev, c, data),
             OnControlEvent(Registry, connected, c, ev, data), keep)

\* a socket sends one of the agentEvents
AgentEvent(c, ev, data, keep) ==
    /\ c \in connected
    /\ Relay(RelayEvent(ev, c, data),
             OnAgentEvent(Registry, connected, c, ev, data), keep)

Next ==
    \/ Connect
    \/ \E c \in Conn, info \in ControllerInfos, code \in Codes :
          ControllerRegister(c, info, code)
    \/ \E c \in Conn, code \in Codes, info \in Infos :
          AgentRegister(c, code, info)
    \/ \E c \in Conn : Disconnect(c)
    \/ Sweep

Spec == Init /\ [][Next]_vars

\* The registry events, no more than MaxSetup of them, together with the
\* relayed messages.
RelayNext(keep) ==
    \/ handled < MaxSetup /\ Next
    \/ \E c \in Conn, ev \in ControlEvents, data \in ControlData(relayed + 1) :
          ControlEvent(c, ev, data, keep)
    \/ \E c \in Conn, ev \in AgentEvents, data \in AgentData(relayed + 1) :
          AgentEvent(c, ev, data, keep)

RelaySpec == Init /\ [][RelayNext(FALSE)]_vars

\* RelaySpec with the history of deliveries recorded
OrderSpec == Init /\ [][RelayNext(TRUE)]_vars

\* ------------------------------------------------------------ properties
\* the emits of the last handler that carry event ev to socket c
EmitsTo(out, c, ev) == {i \in 1..Len(out) : out[i].to = c /\ out[i].event = ev}

\* the pairingCodes entries owned by controller c
CodesOf(c) == {k \in DOMAIN pairingCodes : pairingCodes[k].controllerId = c}

\* C1: every id in a live controller's agentIds is a key of agents, and that
\* agent's controllerId is that controller.
AgentIdsAreAssociatedAgents ==
    \A c \in DOMAIN controllers : \A a \in controllers[c].agentIds :
        /\ a \in DOMAIN agents
        /\ agents[a].controllerId = c

\* C2: for every live controller C and live agent A, A is in C.agentIds
\* exactly when A.controllerId is C.
AgentIdsAreExact ==
    \A c \in DOMAIN controllers : \A a \in DOMAIN agents :
        (a \in controllers[c].agentIds) <=> (agents[a].controllerId = c)

\* C3: every agent's controllerId is a key of controllers (no agent is left
\* pointing at a removed controller).
AgentsPointAtLiveControllers ==
    \A a \in DOMAIN agents : agents[a].controllerId \in DOMAIN controllers

\* C4: no connection id is a key of both agents and controllers.
OneRolePerConnection == (DOMAIN agents) \cap (DOMAIN controllers) = {}

\* C5: each live controller owns at most one entry of pairingCodes.
AtMostOneCodePerController ==
    \A c \in DOMAIN controllers : Cardinality(CodesOf(c)) <= 1

\* C6: the code issued at controller:register is not a key of pairingCodes
\* when it is issued, and no two live controllers hold the same code.
IssuedCodeIsFresh ==
    [][/\ last'.op = "controller:register" => last'.code \notin DOMAIN pairingCodes
       /\ \A c \in DOMAIN controllers', d \in DOMAIN controllers' :
             c # d => controllers'[c].code # controllers'[d].code]_vars

\* C7: an agent:register whose code is not a key of pairingCodes emits one
\* agent:error to the sender and nothing else, and leaves agents, controllers
\* and pairingCodes as they were.
InvalidCodeChangesNothing ==
    [][(last'.op = "agent:register" /\ last'.code \notin DOMAIN pairingCodes)
       => /\ emitted' = <<Msg(last'.conn, "agent:error",
                              [error |-> "Invalid pairing code"])>>
          /\ agents' = agents
          /\ controllers' = controllers
          /\ pairingCodes' = pairingCodes]_vars

\* an agent:register was refused for a code that a live controller was
\* issued and the sweep has removed; the sender is still unregistered
InvalidCodeRefused ==
    /\ last.op = "agent:register"
    /\ last.code \notin DOMAIN pairingCodes
    /\ \E c \in DOMAIN controllers : controllers[c].code = last.code
    /\ last.conn \notin DOMAIN agents
    /\ Len(emitted) = 1 /\ emitted[1].event = "agent:error"

\* C8: when a controller disconnects, each agent whose controllerId is that
\* controller gets exactly one agent:controller-disconnected and no other
\* socket gets any.
OneNoticePerAssociatedAgent ==
    [][(last'.op = "disconnect" /\ last'.conn \in DOMAIN controllers)
       => LET c == last'.conn
              assoc == {a \in (DOMAIN agents) \ {c} : agents[a].controllerId = c}
          IN \A a \in Conn :
               Cardinality(EmitsTo(emitted', a, "agent:controller-disconnected"))
                 = IF a \in assoc THEN 1 ELSE 0]_vars

\* C9: every pairingCodes entry references a key of controllers, and the
\* 'Controller not found' branch of agent:register is never taken.
CodesPointAtLiveControllers ==
    /\ \A k \in DOMAIN pairingCodes :
          pairingCodes[k].controllerId \in DOMAIN controllers
    /\ \A i \in 1..Len(emitted) :
          ~(emitted[i].event = "agent:error"
            /\ emitted[i].payload.error = "Controller not found")

\* a controller has disconnected: no remaining code is its own, and another
\* controller's code is still there
ControllerGoneWithItsCodes ==
    /\ last.op = "disconnect"
    /\ logged = <<"[CONTROLLER] Disconnected">>
    /\ CodesOf(last.conn) = {}
    /\ pairingCodes # EmptyMap

\* C10: a disconnect of a connection that is a key of neither agents nor
\* controllers changes none of the three maps and emits nothing.
UnknownDisconnectIsNoOp ==
    [][(/\ last'.op = "disconnect"
        /\ last'.conn \notin DOMAIN agents
        /\ last'.conn \notin DOMAIN controllers)
       => /\ agents' = agents
          /\ controllers' = controllers
          /\ pairingCodes' = pairingCodes
          /\ emitted' = <<>>]_vars

\* a connection that was in neither map has disconnected (neither half of
\* the handler ran) while the maps hold other connections
UnknownDisconnected ==
    /\ last.op = "disconnect"
    /\ logged = <<>>
    /\ agents # EmptyMap
    /\ controllers # EmptyMap


\* data?.agentId || data?.targetAgent
TargetOf(data) == IF data.agentId # 0 THEN data.agentId ELSE data.targetAgent

\* C11: a control event whose agentId/targetAgent is missing or is not a key
\* of agents emits nothing and leaves agents, controllers and pairingCodes
\* as they were.
UnknownTargetIsDropped ==
    [][(last'.op \in ControlEvents /\ TargetOf(last'.data) \notin DOMAIN agents)
       => /\ emitted' = <<>>
          /\ agents' = agents
          /\ controllers' = controllers
          /\ pairingCodes' = pairingCodes]_vars

\* a control event named a connected socket that is no agent, while there
\* is an agent, and nothing was emitted
ControlDropped ==
    /\ last.op \in ControlEvents
    /\ TargetOf(last.data) \in connected \ DOMAIN agents
    /\ agents # EmptyMap
    /\ emitted = <<>>

\* C12: every agent-origin message delivered to a controller carries the
\* sender's socket id as agentId, whatever agentId the payload had, and the
\* rest of the payload as it was sent.
OriginIsInjected ==
    last.op \in AgentEvents =>
        \A i \in 1..Len(emitted) :
            /\ emitted[i].event = last.op
            /\ emitted[i].payload.agentId = last.conn
            /\ emitted[i].payload.targetAgent = last.data.targetAgent
            /\ emitted[i].payload.body = last.data.body

\* an agent sent a payload naming another socket as agentId and its
\* controller got the message
SpoofedOriginDelivered ==
    /\ last.op \in AgentEvents
    /\ last.data.agentId \notin {0, last.conn}
    /\ Len(emitted) = 1

SweepRemovesOnlyOldCodes ==
    [][last'.op = "sweep"
       => /\ DOMAIN pairingCodes' \subseteq DOMAIN pairingCodes
          /\ \A k \in DOMAIN pairingCodes :
                IF pairingCodes[k].created < now' - ExpiryWindow
                THEN k \notin DOMAIN pairingCodes'
                ELSE /\ k \in DOMAIN pairingCodes'
                     /\ pairingCodes'[k] = pairingCodes[k]]_vars

\* a sweep has removed one controller's code and kept the code of another
\* registration
SweepRemovedAndKept ==
    /\ last.op = "sweep"
    /\ pairingCodes # EmptyMap
    /\ \E c \in DOMAIN controllers : controllers[c].code \notin DOMAIN pairingCodes

CodeIsNotConsumed ==
    [][(last'.op = "agent:register" /\ last'.code \in DOMAIN pairingCodes)
       => LET cid == pairingCodes[last'.code].controllerId
          IN /\ pairingCodes' = pairingCodes
             /\ last'.conn \in DOMAIN agents'
             /\ agents'[last'.conn].controllerId = cid
             /\ cid \in DOMAIN controllers'
             /\ last'.conn \in controllers'[cid].agentIds]_vars

\* a second agent has registered with a code, is associated with the same
\* controller as another agent, and the code is still there
SecondAgentJoinedWithCode ==
    /\ last.op = "agent:register"
    /\ last.code \in DOMAIN pairingCodes
    /\ last.conn \in DOMAIN agents
    /\ \E a \in (DOMAIN agents) \ {last.conn} :
          /\ agents[a].controllerId = agents[last.conn].controllerId
          /\ a \in controllers[agents[a].controllerId].agentIds

\* C17: a successful agent:register emits one agent:registered to the agent,
\* naming the controller that owns the code, and one controller:agent-joined
\* to that controller, carrying the agent's id and the hostname, username,
\* platform and screens it supplied; nothing else is emitted.
JoinedGoesToTheOwner ==
    [][(last'.op = "agent:register" /\ last'.code \in DOMAIN pairingCodes)
       => LET cid == pairingCodes[last'.code].controllerId
          IN emitted' =
               <<Msg(last'.conn, "agent:registered",
                     [agentId |-> last'.conn, controllerId |-> cid]),
                 Msg(cid, "controller:agent-joined",
                     [id |-> last'.conn,
                      hostname |-> last'.info.hostname,
                      username |-> last'.info.username,
                      platform |-> last'.info.platform,
                      screens |-> last'.info.screens])>>]_vars

\* an agent has registered while two controllers are live, and only the
\* owner of the code was told
JoinedWithTwoControllers ==
    /\ last.op = "agent:register"
    /\ Len(emitted) = 2
    /\ emitted[2].event = "controller:agent-joined"
    /\ Cardinality(DOMAIN controllers) >= 2

\* the ids listed by the controller:agent-list emits of the last handler
SnapshotIds ==
    {x.id : x \in UNION {emitted[i].payload :
                           i \in EmitsTo(emitted, last.conn,
                                         "controller:agent-list")}}

\* C18: a controller:register sends the controller one agent-list holding
\* exactly the agents whose controllerId is its id, and the list agrees with
\* the controller's agentIds after the registration.
SnapshotIsTheAssociatedAgents ==
    last.op = "controller:register" =>
        /\ Cardinality(EmitsTo(emitted, last.conn, "controller:agent-list")) = 1
        /\ SnapshotIds = {a \in DOMAIN agents :
                            agents[a].controllerId = last.conn}
        /\ last.conn \in DOMAIN controllers
        /\ SnapshotIds = controllers[last.conn].agentIds

\* C19: every key of agents and of controllers, and every owner of a
\* pairingCodes entry, is a connected socket: a disconnected id is in none
\* of the maps.
OnlyConnectedSocketsAreRegistered ==
    /\ DOMAIN agents \subseteq connected
    /\ DOMAIN controllers \subseteq connected
    /\ \A k \in DOMAIN pairingCodes : pairingCodes[k].controllerId \in connected

\* a socket registered as agent and as controller has disconnected
DualRoleDisconnected ==
    /\ last.op = "disconnect"
    /\ logged = <<"[AGENT] Disconnected", "[CONTROLLER] Disconnected">>
    /\ last.conn \notin connected

\* C20: a control event naming a key of agents is emitted to that agent's
\* socket alone, with its payload as sent, whoever the sender is, and leaves
\* agents, controllers and pairingCodes as they were.
ControlReachesTheNamedAgent ==
    [][(last'.op \in ControlEvents /\ TargetOf(last'.data) \in DOMAIN agents)
       => /\ emitted' = <<Msg(TargetOf(last'.data), last'.op, last'.data)>>
          /\ agents' = agents
          /\ controllers' = controllers
          /\ pairingCodes' = pairingCodes]_vars

\* a socket that is not the agent's controller sent a control event and the
\* agent got it
ForeignControlDelivered ==
    /\ last.op \in ControlEvents
    /\ Len(emitted) = 1
    /\ emitted[1].to \in DOMAIN agents
    /\ agents[emitted[1].to].controllerId # last.conn
    /\ agents[emitted[1].to].controllerId \in DOMAIN controllers

====
